---- MODULE Spec2Model ----
(***************************************************************************)
(* Model of the inference response cache of tensorzero_internal            *)
(* (src/tensorzero_internal/src/cache.rs): the cache key derived from a    *)
(* model provider request, the detached cache write, the cache lookup      *)
(* against the ModelInferenceCache table, and the CacheOptions policy.     *)
(*                                                                         *)
(* Conventions.  A byte is a number in 0..255 and a string is a sequence   *)
(* of bytes or of one-character strings.  Option<T> is a sequence of       *)
(* length at most one: None is <<>> and Some(x) is <<x>>.                  *)
(***************************************************************************)
EXTENDS Integers, Sequences, FiniteSets, TLC

VARIABLES
    store,          \* rows of the table ModelInferenceCache, in insertion order
    now,            \* the store's clock, in seconds (ClickHouse now())
    spawned,        \* the tasks created by tokio::spawn in start_cache_write; inserted is
                    \* the place of the task's row in store once the insert is done,
                    \* attempts the number of times the task called the store's write
    writes,         \* the start_cache_write calls that have returned
    lookup,         \* the cache_lookup call in progress, or the last one
    fps,            \* results of get_cache_key calls (fingerprint specification)
    cache_key,      \* a CacheKey whose two forms are derived (key specification)
    derived,        \* the forms derived from cache_key
    cache_options,  \* the CacheOptions built for an inference call
    inference       \* the inference call of the gateway in progress (gateway specification)

vars == <<store, now, spawned, writes, lookup, fps, cache_key, derived, cache_options, inference>>

(***************************************************************************)
(* Bounds of the model.                                                    *)
(***************************************************************************)
MaxWrites == 2      \* start_cache_write calls in one behaviour
MaxTime == 1        \* the clock runs from 0 to MaxTime; with max_age_s in {0, 1} a row
                    \* is younger than, as old as, or older than the bound
MaxAgeInput == 9    \* max_age_s values 0..MaxAgeInput given to serde

Zeros(n) == [i \in 1..n |-> 0]

RECURSIVE SumBytes(_)
SumBytes(bytes) == IF bytes = <<>> THEN 0 ELSE Head(bytes) + SumBytes(Tail(bytes))

(***************************************************************************)
(* The requests.  A name is a Rust str, here its bytes: "a", "ab", "bc",   *)
(* "c".  The body stands for ModelInferenceRequest with the fields system  *)
(* and stream; every other field is unset as in test_get_cache_key.  The   *)
(* system value Unserializable stands for a body on which                  *)
(* serde_json::to_string returns Err.                                      *)
(***************************************************************************)
None == <<>>
Some(x) == <<x>>

ModelNames == {<<97>>, <<97, 98>>}
ProviderNames == {<<98, 99>>, <<99>>}
Unserializable == Some(<<255>>)
Systems == {None, Some(<<115>>), Unserializable}
ModelInferenceRequest == [system : Systems, stream : BOOLEAN]
ModelProviderRequest ==
    [request : ModelInferenceRequest, model_name : ModelNames, provider_name : ProviderNames]

\* serde_json::to_string(self.request): the fields in declaration order.
\* Err is None, Ok(bytes) is Some(bytes).
SerializeRequest(request) ==
    IF request.system = Unserializable
    THEN None
    ELSE Some(<<123>>
              \o (IF request.system = None THEN <<110>> ELSE <<34>> \o request.system[1] \o <<34>>)
              \o <<44>>
              \o (IF request.stream THEN <<116>> ELSE <<102>>)
              \o <<125>>)

(***************************************************************************)
(* blake3::Hasher.  The digest is 32 bytes.  The model's hash has no       *)
(* collision on the inputs of the model (the input and its length are      *)
(* spread over the digest), while the first 8 bytes, a checksum and the    *)
(* length, do collide for inputs with the same bytes in another order, so  *)
(* that two digests with the same short key exist.                         *)
(***************************************************************************)
DigestLen == 32
ShortLen == 8

HasherNew == <<>>
HasherUpdate(hasher, bytes) == hasher \o bytes
HasherFinalize(hasher) ==
    <<SumBytes(hasher) % 256, Len(hasher) % 128>>
        \o Zeros(ShortLen - 2)
        \o hasher
        \o Zeros(DigestLen - ShortLen - Len(hasher))

\* get_cache_key that does not hash the request.
get_cache_key_names_only(mpr) ==
    LET h1 == HasherUpdate(HasherNew, mpr.model_name)
        h2 == HasherUpdate(h1, <<0>>)
        h3 == HasherUpdate(h2, mpr.provider_name)
        h4 == HasherUpdate(h3, <<0>>)
    IN  IF SerializeRequest(mpr.request) = None
        THEN [ok |-> FALSE, key |-> <<>>]
        ELSE [ok |-> TRUE, key |-> HasherFinalize(h4)]

\* get_cache_key without the null bytes after the names.
get_cache_key_no_separators(mpr) ==
    LET h1 == HasherUpdate(HasherNew, mpr.model_name)
        h3 == HasherUpdate(h1, mpr.provider_name)
        serialized_request == SerializeRequest(mpr.request)
    IN  IF serialized_request = None
        THEN [ok |-> FALSE, key |-> <<>>]
        ELSE [ok |-> TRUE, key |-> HasherFinalize(HasherUpdate(h3, serialized_request[1]))]

\* get_cache_key with a hasher seeded by the number of calls made so far.
get_cache_key_seeded(mpr) ==
    LET h0 == HasherUpdate(HasherNew, <<Len(writes)>>)
        h1 == HasherUpdate(h0, mpr.model_name)
        h2 == HasherUpdate(h1, <<0>>)
        h3 == HasherUpdate(h2, mpr.provider_name)
        h4 == HasherUpdate(h3, <<0>>)
        serialized_request == SerializeRequest(mpr.request)
    IN  IF serialized_request = None
        THEN [ok |-> FALSE, key |-> <<>>]
        ELSE [ok |-> TRUE, key |-> HasherFinalize(HasherUpdate(h4, serialized_request[1]))]

\* ModelProviderRequest::get_cache_key: Ok(CacheKey) as [ok |-> TRUE, key |-> digest],
\* the Serialization error as [ok |-> FALSE, key |-> <<>>].
get_cache_key(mpr) ==
    LET h1 == HasherUpdate(HasherNew, mpr.model_name)
        h2 == HasherUpdate(h1, <<0>>)
        h3 == HasherUpdate(h2, mpr.provider_name)
        h4 == HasherUpdate(h3, <<0>>)
        serialized_request == SerializeRequest(mpr.request)
    IN  IF serialized_request = None
        THEN [ok |-> FALSE, key |-> <<>>]
        ELSE [ok |-> TRUE, key |-> HasherFinalize(HasherUpdate(h4, serialized_request[1]))]

(***************************************************************************)
(* CacheKey: the two derived forms.                                        *)
(***************************************************************************)
\* u64::from_le_bytes
RECURSIVE from_le_bytes(_)
from_le_bytes(bytes) ==
    IF bytes = <<>> THEN 0 ELSE Head(bytes) + 256 * from_le_bytes(Tail(bytes))

\* get_short_key on the slice self.0[1..9].
get_short_key_shifted(key) ==
    IF Len(key) < ShortLen + 1
    THEN None
    ELSE Some(from_le_bytes(SubSeq(key, 2, ShortLen + 1)))

\* get_short_key on the slice self.0[..9]: nine bytes do not convert into [u8; 8].
get_short_key_nine(key) ==
    IF Len(SubSeq(key, 1, ShortLen + 1)) # ShortLen
    THEN None
    ELSE Some(from_le_bytes(SubSeq(key, 1, ShortLen + 1)))

\* CacheKey::get_short_key: self.0[..8].try_into() fails when the slice does
\* not have 8 bytes; Ok(n) is Some(n), the Cache error is None.
get_short_key(key) ==
    IF Len(key) < ShortLen
    THEN None
    ELSE Some(from_le_bytes(SubSeq(key, 1, ShortLen)))

HexDigits == <<"0", "1", "2", "3", "4", "5", "6", "7", "8", "9", "a", "b", "c", "d", "e", "f">>

\* An encoding that writes the low nibble of each byte first.
hex_encode_low_first(bytes) ==
    [i \in 1..(2 * Len(bytes)) |->
        IF i % 2 = 1
        THEN HexDigits[(bytes[(i + 1) \div 2] % 16) + 1]
        ELSE HexDigits[(bytes[i \div 2] \div 16) + 1]]

\* hex::encode: two lowercase digits for each byte, the high nibble first.
hex_encode(bytes) ==
    [i \in 1..(2 * Len(bytes)) |->
        IF i % 2 = 1
        THEN HexDigits[(bytes[(i + 1) \div 2] \div 16) + 1]
        ELSE HexDigits[(bytes[i \div 2] % 16) + 1]]

\* CacheKey::get_long_key
get_long_key(key) == hex_encode(key)

(***************************************************************************)
(* The numbers bound to the query as text: u64::to_string and              *)
(* u32::to_string on the caller's side, the UInt64 and UInt32 parameter    *)
(* parsers on the store's side.                                            *)
(***************************************************************************)
DecDigits == <<"0", "1", "2", "3", "4", "5", "6", "7", "8", "9">>

RECURSIVE to_string(_)
to_string(n) ==
    IF n < 10 THEN <<DecDigits[n + 1]>> ELSE to_string(n \div 10) \o <<DecDigits[(n % 10) + 1]>>

DigitValue(c) == (CHOOSE d \in 1..10 : DecDigits[d] = c) - 1

RECURSIVE ParseUInt(_)
ParseUInt(text) ==
    IF text = <<>>
    THEN 0
    ELSE 10 * ParseUInt(SubSeq(text, 1, Len(text) - 1)) + DigitValue(text[Len(text)])

(***************************************************************************)
(* The arguments of the calls: the requests, and the data of a provider    *)
(* exchange offered to the writer (the output, a Vec<ContentBlock>, the    *)
(* raw request and the raw response).                                      *)
(***************************************************************************)
\* The requests that are written and looked up.  R1 and R2 have the same short
\* key and different long keys; R3 differs from R1 in the stream flag alone;
\* BadRequest cannot be serialized.
R1 == [request |-> [system |-> None, stream |-> FALSE], model_name |-> <<97>>,
       provider_name |-> <<98, 99>>]
R2 == [request |-> [system |-> None, stream |-> FALSE], model_name |-> <<97, 98>>,
       provider_name |-> <<99>>]
R3 == [request |-> [system |-> None, stream |-> TRUE], model_name |-> <<97>>,
       provider_name |-> <<98, 99>>]
BadRequest == [request |-> [system |-> Unserializable, stream |-> FALSE], model_name |-> <<97>>,
               provider_name |-> <<98, 99>>]

DataA == [output |-> <<"blockA">>, raw_request |-> "rawRequestA", raw_response |-> "rawResponseA"]
DataB == [output |-> <<"blockB1", "blockB2">>, raw_request |-> "rawRequestB",
          raw_response |-> "rawResponseB"]
DataC == [output |-> <<>>, raw_request |-> "rawRequestC", raw_response |-> "rawResponseC"]

\* The arguments of the start_cache_write calls and of the cache_lookup calls.
WriteInputs == {<<R1, DataA>>, <<R1, DataB>>, <<R2, DataC>>, <<BadRequest, DataA>>}
LookupInputs ==
    {<<R1, None>>, <<R1, Some(0)>>, <<R1, Some(1)>>, <<R2, None>>, <<R2, Some(1)>>,
     <<R3, None>>, <<BadRequest, None>>}

\* The output column holds the content blocks as JSON text; deserialize_json_string
\* parses it back.  Ok(v) is Some(v), a parse error is None.
SerializeOutput(output) == <<"json", output>>
deserialize_json_string(text) == IF Len(text) = 2 /\ text[1] = "json" THEN Some(text[2]) ELSE None

\* The row with the raw request and the raw response in each other's place.
ModelInferenceCacheRowSwapped(short_cache_key, long_cache_key, output, raw_request, raw_response) ==
    [short_cache_key |-> short_cache_key,
     long_cache_key |-> long_cache_key,
     output |-> output,
     raw_request |-> raw_response,
     raw_response |-> raw_request]

\* ModelInferenceCacheRow, as start_cache_write builds it.
ModelInferenceCacheRow(short_cache_key, long_cache_key, output, raw_request, raw_response) ==
    [short_cache_key |-> short_cache_key,
     long_cache_key |-> long_cache_key,
     output |-> output,
     raw_request |-> raw_request,
     raw_response |-> raw_response]

\* The row as the table holds it: the output as text, the timestamp set by the store.
StoredRow(row, timestamp) ==
    [short_cache_key |-> row.short_cache_key,
     long_cache_key |-> row.long_cache_key,
     output |-> SerializeOutput(row.output),
     raw_request |-> row.raw_request,
     raw_response |-> row.raw_response,
     timestamp |-> timestamp]

(***************************************************************************)
(* start_cache_write.  The call computes the keys, copies its arguments,   *)
(* spawns the insert and returns; the spawned task is a later step.        *)
(***************************************************************************)
WriteCall(mpr, data, ret, task) ==
    [request |-> mpr, output |-> data.output, raw_request |-> data.raw_request,
     raw_response |-> data.raw_response, ret |-> ret, task |-> task]

\* start_cache_write that awaits the insert before it returns.
start_cache_write_awaiting(mpr, data) ==
    LET cache_key_result == get_cache_key(mpr)
        short_cache_key == get_short_key(cache_key_result.key)
        row == ModelInferenceCacheRow(short_cache_key[1], get_long_key(cache_key_result.key),
                                      data.output, data.raw_request, data.raw_response)
    IN  /\ Len(writes) < MaxWrites
        /\ IF ~cache_key_result.ok
           THEN /\ writes' = Append(writes, WriteCall(mpr, data, "ErrSerialization", 0))
                /\ UNCHANGED <<spawned, store>>
           ELSE /\ store' = Append(store, StoredRow(row, now))
                /\ spawned' = Append(spawned, [row |-> row, state |-> "done",
                                               inserted |-> Len(store) + 1, attempts |-> 1])
                /\ writes' = Append(writes, WriteCall(mpr, data, "Ok", Len(spawned) + 1))
        /\ UNCHANGED <<now, lookup, fps, cache_key, derived, cache_options, inference>>

\* start_cache_write that waits while an earlier insert is pending.
start_cache_write_capped(mpr, data) ==
    LET cache_key_result == get_cache_key(mpr)
        short_cache_key == get_short_key(cache_key_result.key)
    IN  /\ Len(writes) < MaxWrites
        /\ \A t \in 1..Len(spawned) : spawned[t].state # "pending"
        /\ IF ~cache_key_result.ok
           THEN /\ writes' = Append(writes, WriteCall(mpr, data, "ErrSerialization", 0))
                /\ UNCHANGED spawned
           ELSE /\ spawned' = Append(spawned,
                        [row |-> ModelInferenceCacheRow(short_cache_key[1],
                                     get_long_key(cache_key_result.key),
                                     data.output, data.raw_request, data.raw_response),
                         state |-> "pending", inserted |-> 0, attempts |-> 0])
                /\ writes' = Append(writes, WriteCall(mpr, data, "Ok", Len(spawned) + 1))
        /\ UNCHANGED <<store, now, lookup, fps, cache_key, derived, cache_options, inference>>

\* start_cache_write that takes the short key from a digest of the names alone.
start_cache_write_two_digests(mpr, data) ==
    LET cache_key_result == get_cache_key(mpr)
        short_cache_key == get_short_key(get_cache_key_names_only(mpr).key)
    IN  /\ Len(writes) < MaxWrites
        /\ IF ~cache_key_result.ok
           THEN /\ writes' = Append(writes, WriteCall(mpr, data, "ErrSerialization", 0))
                /\ UNCHANGED spawned
           ELSE /\ spawned' = Append(spawned,
                        [row |-> ModelInferenceCacheRow(short_cache_key[1],
                                     get_long_key(cache_key_result.key),
                                     data.output, data.raw_request, data.raw_response),
                         state |-> "pending", inserted |-> 0, attempts |-> 0])
                /\ writes' = Append(writes, WriteCall(mpr, data, "Ok", Len(spawned) + 1))
        /\ UNCHANGED <<store, now, lookup, fps, cache_key, derived, cache_options, inference>>

\* start_cache_write that builds the future of the insert and drops it unspawned.
start_cache_write_unspawned(mpr, data) ==
    LET cache_key_result == get_cache_key(mpr)
        short_cache_key == get_short_key(cache_key_result.key)
    IN  /\ Len(writes) < MaxWrites
        /\ IF ~cache_key_result.ok
           THEN /\ writes' = Append(writes, WriteCall(mpr, data, "ErrSerialization", 0))
                /\ UNCHANGED spawned
           ELSE /\ spawned' = Append(spawned,
                        [row |-> ModelInferenceCacheRow(short_cache_key[1],
                                     get_long_key(cache_key_result.key),
                                     data.output, data.raw_request, data.raw_response),
                         state |-> "unspawned", inserted |-> 0, attempts |-> 0])
                /\ writes' = Append(writes, WriteCall(mpr, data, "Ok", Len(spawned) + 1))
        /\ UNCHANGED <<store, now, lookup, fps, cache_key, derived, cache_options, inference>>

\* start_cache_write that spawns the task before it computes the key.
start_cache_write_spawn_first(mpr, data) ==
    LET cache_key_result == get_cache_key(mpr)
        key == IF cache_key_result.ok THEN cache_key_result.key ELSE Zeros(DigestLen)
        row == ModelInferenceCacheRow(get_short_key(key)[1], get_long_key(key),
                                      data.output, data.raw_request, data.raw_response)
    IN  /\ Len(writes) < MaxWrites
        /\ spawned' = Append(spawned, [row |-> row, state |-> "pending",
                                       inserted |-> 0, attempts |-> 0])
        /\ writes' = Append(writes, WriteCall(mpr, data,
                                IF cache_key_result.ok THEN "Ok" ELSE "ErrSerialization",
                                Len(spawned) + 1))
        /\ UNCHANGED <<store, now, lookup, fps, cache_key, derived, cache_options, inference>>

\* start_cache_write: the keys are computed before the task is spawned.
start_cache_write(mpr, data) ==
    LET cache_key_result == get_cache_key(mpr)
        short_cache_key == get_short_key(cache_key_result.key)
    IN  /\ Len(writes) < MaxWrites
        /\ IF ~cache_key_result.ok
           THEN /\ writes' = Append(writes, WriteCall(mpr, data, "ErrSerialization", 0))
                /\ UNCHANGED spawned
           ELSE IF short_cache_key = None
           THEN /\ writes' = Append(writes, WriteCall(mpr, data, "ErrCache", 0))
                /\ UNCHANGED spawned
           ELSE /\ spawned' = Append(spawned,
                        [row |-> ModelInferenceCacheRow(short_cache_key[1],
                                     get_long_key(cache_key_result.key),
                                     data.output, data.raw_request, data.raw_response),
                         state |-> "pending", inserted |-> 0, attempts |-> 0])
                /\ writes' = Append(writes, WriteCall(mpr, data, "Ok", Len(spawned) + 1))
        /\ UNCHANGED <<store, now, lookup, fps, cache_key, derived, cache_options, inference>>

\* An insert that replaces the row with the same keys when the table holds one.
InsertOkUpsert(i) ==
    LET row == StoredRow(spawned[i].row, now)
        same == {j \in 1..Len(store) :
                    /\ store[j].short_cache_key = row.short_cache_key
                    /\ store[j].long_cache_key = row.long_cache_key}
        place == IF same = {} THEN Len(store) + 1 ELSE CHOOSE j \in same : TRUE
    IN  /\ i \in 1..Len(spawned)
        /\ spawned[i].state = "pending"
        /\ store' = IF same = {} THEN Append(store, row) ELSE [store EXCEPT ![place] = row]
        /\ spawned' = [spawned EXCEPT ![i].state = "done", ![i].inserted = place,
                                      ![i].attempts = @ + 1]
        /\ UNCHANGED <<now, writes, lookup, fps, cache_key, derived, cache_options, inference>>

\* A task that holds references to the caller's buffers in the place of copies:
\* the insert reads them when it runs, and they hold by then the arguments of
\* the caller's latest call.
InsertOkBorrowing(i) ==
    LET held == writes[Len(writes)]
        row == ModelInferenceCacheRow(spawned[i].row.short_cache_key,
                                      spawned[i].row.long_cache_key,
                                      held.output, held.raw_request, held.raw_response)
    IN  /\ i \in 1..Len(spawned)
        /\ spawned[i].state = "pending"
        /\ store' = Append(store, StoredRow(row, now))
        /\ spawned' = [spawned EXCEPT ![i].state = "done", ![i].inserted = Len(store) + 1,
                                      ![i].attempts = @ + 1]
        /\ UNCHANGED <<now, writes, lookup, fps, cache_key, derived, cache_options, inference>>

\* The spawned task: clickhouse_client.write(&[row], "ModelInferenceCache") succeeds.
InsertOk(i) ==
    /\ i \in 1..Len(spawned)
    /\ spawned[i].state = "pending"
    /\ store' = Append(store, StoredRow(spawned[i].row, now))
    /\ spawned' = [spawned EXCEPT ![i].state = "done", ![i].inserted = Len(store) + 1,
                                  ![i].attempts = @ + 1]
    /\ UNCHANGED <<now, writes, lookup, fps, cache_key, derived, cache_options, inference>>

\* A task that tries the insert again after a failure.
InsertFailRetried(i) ==
    /\ i \in 1..Len(spawned)
    /\ spawned[i].state = "pending"
    /\ spawned' = [spawned EXCEPT ![i].attempts = @ + 1]
    /\ UNCHANGED <<store, now, writes, lookup, fps, cache_key, derived, cache_options, inference>>

\* The failure of the insert reaches the value returned by the call.
InsertFailPropagated(i) ==
    /\ i \in 1..Len(spawned)
    /\ spawned[i].state = "pending"
    /\ spawned' = [spawned EXCEPT ![i].state = "failed", ![i].attempts = @ + 1]
    /\ writes' = [k \in 1..Len(writes) |->
                     IF writes[k].task = i THEN [writes[k] EXCEPT !.ret = "ErrStore"]
                     ELSE writes[k]]
    /\ UNCHANGED <<store, now, lookup, fps, cache_key, derived, cache_options, inference>>

\* The spawned task: the write fails; the task's result is dropped with its JoinHandle.
InsertFail(i) ==
    /\ i \in 1..Len(spawned)
    /\ spawned[i].state = "pending"
    /\ spawned' = [spawned EXCEPT ![i].state = "failed", ![i].attempts = @ + 1]
    /\ UNCHANGED <<store, now, writes, lookup, fps, cache_key, derived, cache_options, inference>>

\* A second passes on the store's clock.
Tick ==
    /\ now < MaxTime
    /\ now' = now + 1
    /\ UNCHANGED <<store, spawned, writes, lookup, fps, cache_key, derived, cache_options, inference>>

(***************************************************************************)
(* cache_lookup.  The call computes the keys and sends one query; the      *)
(* store's reply is a later step, at which the call returns.               *)
(***************************************************************************)
\* The two query texts: with the timestamp predicate when max_age_s is Some.
\* The choice of the query with a bound of zero seconds taken for no bound.
QueryTemplateZeroIsUnbounded(max_age_s) ==
    IF max_age_s = None THEN "no_lookback"
    ELSE IF max_age_s[1] = 0 THEN "no_lookback" ELSE "lookback"

QueryTemplate(max_age_s) == IF max_age_s # None THEN "lookback" ELSE "no_lookback"

\* query_params: short_cache_key and long_cache_key always, lookback_s when max_age_s is Some.
QueryParams(short_cache_key, long_cache_key, max_age_s) ==
    [short_cache_key |-> to_string(short_cache_key),
     long_cache_key |-> long_cache_key,
     lookback_s |-> IF max_age_s # None THEN Some(to_string(max_age_s[1])) ELSE None]

\* The timestamp predicate with >= in the place of >.
RowMatchesInclusive(row, template, params, time) ==
    /\ row.short_cache_key = ParseUInt(params.short_cache_key)
    /\ row.long_cache_key = params.long_cache_key
    /\ template = "lookback" => row.timestamp >= time - ParseUInt(params.lookback_s[1])

\* The WHERE clause without the two keys.
RowMatchesNoKeys(row, template, params, time) ==
    template = "lookback" => row.timestamp > time - ParseUInt(params.lookback_s[1])

\* The WHERE clause without the long key.
RowMatchesShortOnly(row, template, params, time) ==
    /\ row.short_cache_key = ParseUInt(params.short_cache_key)
    /\ template = "lookback" => row.timestamp > time - ParseUInt(params.lookback_s[1])

\* WHERE short_cache_key = {short_cache_key:UInt64} AND long_cache_key = {long_cache_key:String}
\*   [AND timestamp > subtractSeconds(now(), {lookback_s:UInt32})]
RowMatches(row, template, params, time) ==
    /\ row.short_cache_key = ParseUInt(params.short_cache_key)
    /\ row.long_cache_key = params.long_cache_key
    /\ template = "lookback" => row.timestamp > time - ParseUInt(params.lookback_s[1])

\* The query with an absent bound taken for a bound of zero seconds.
MatchingDefaultAge(rows, template, params, time) ==
    {i \in 1..Len(rows) :
        /\ RowMatches(rows[i], template, params, time)
        /\ template = "no_lookback" => rows[i].timestamp > time}

\* The rows that the WHERE clause selects at a time of the store's clock.
Matching(rows, template, params, time) ==
    {i \in 1..Len(rows) : RowMatches(rows[i], template, params, time)}

\* ORDER BY timestamp in ascending order.
Earliest(rows, matching) ==
    {i \in matching : \A j \in matching : rows[j].timestamp >= rows[i].timestamp}

\* The query without ORDER BY: any matching row may come first.
Unordered(rows, matching) == matching

\* ORDER BY timestamp DESC LIMIT 1: the rows the store may put first.
Latest(rows, matching) ==
    {i \in matching : \A j \in matching : rows[j].timestamp <= rows[i].timestamp}

\* The query without LIMIT 1: every matching row is in the reply, a latest first.
QueryResultsNoLimit(rows, template, params, time) ==
    LET matching == Matching(rows, template, params, time)
        Line(i) == [output |-> rows[i].output, raw_request |-> rows[i].raw_request,
                    raw_response |-> rows[i].raw_response]
        Reply(first) ==
            LET Other(k) == k \in matching /\ k # first
                others == SelectSeq([k \in 1..Len(rows) |-> k], Other)
            IN  <<Line(first)>> \o [n \in 1..Len(others) |-> Line(others[n])]
    IN  IF matching = {}
        THEN {<<>>}
        ELSE {Reply(i) : i \in Latest(rows, matching)}

\* SELECT output, raw_request, raw_response ... FORMAT JSONEachRow: the texts the
\* store may answer, the empty text when no row matches.
QueryResults(rows, template, params, time) ==
    LET matching == Matching(rows, template, params, time)
    IN  IF matching = {}
        THEN {<<>>}
        ELSE {<<[output |-> rows[i].output, raw_request |-> rows[i].raw_request,
                 raw_response |-> rows[i].raw_response]>> : i \in Latest(rows, matching)}

\* serde_json::from_str::<CacheLookupResult>: Ok(v) is Some(v), an error is None.
CacheLookupResult(result) ==
    LET output == deserialize_json_string(result[1].output)
    IN  IF output = None
        THEN None
        ELSE Some([output |-> output[1], raw_request |-> result[1].raw_request,
                   raw_response |-> result[1].raw_response])

\* ModelInferenceResponse::from_cache(result, request.request, request.provider_name)
from_cache(cache_lookup_result, request, provider_name) ==
    [output |-> cache_lookup_result.output,
     raw_request |-> cache_lookup_result.raw_request,
     raw_response |-> cache_lookup_result.raw_response,
     system |-> request.system,
     model_provider_name |-> provider_name,
     cached |-> TRUE]

\* The state of a cache_lookup call.  While the query is with the store, calls is
\* the number of start_cache_write calls that returned before this call.
\* reply is what run_query gave once it has answered: Ok(text) or Err; queries is
\* the number of run_query calls made.
LookupState(mpr, max_age_s, pc, query, calls, ret, response) ==
    [request |-> mpr, max_age_s |-> max_age_s, pc |-> pc, query |-> query,
     queries |-> IF query = None THEN 0 ELSE 1,
     calls |-> calls, reply |-> None, ret |-> ret, response |-> response]

\* cache_lookup up to run_query(...).await
cache_lookup(mpr, max_age_s) ==
    LET cache_key_result == get_cache_key(mpr)
        short_cache_key == get_short_key(cache_key_result.key)
    IN  /\ lookup = None
        /\ IF ~cache_key_result.ok
           THEN lookup' = Some(LookupState(mpr, max_age_s, "returned", None, 0,
                                           "ErrSerialization", None))
           ELSE IF short_cache_key = None
           THEN lookup' = Some(LookupState(mpr, max_age_s, "returned", None, 0,
                                           "ErrCache", None))
           ELSE lookup' = Some(LookupState(mpr, max_age_s, "querying",
                                  Some([template |-> QueryTemplate(max_age_s),
                                        params |-> QueryParams(short_cache_key[1],
                                                      get_long_key(cache_key_result.key),
                                                      max_age_s)]),
                                  Len(writes), "Pending", None))
        /\ UNCHANGED <<store, now, spawned, writes, fps, cache_key, derived, cache_options, inference>>

\* A cache_lookup that answers an empty reply with a response of empty data.
LookupReturnDefaultOnEmpty(result) ==
    LET l == lookup[1]
        parsed == IF result = <<>>
                  THEN Some([output |-> <<>>, raw_request |-> "", raw_response |-> ""])
                  ELSE CacheLookupResult(result)
    IN  IF parsed = None
        THEN Some([l EXCEPT !.pc = "returned", !.calls = 0, !.ret = "ErrCache"])
        ELSE Some([l EXCEPT !.pc = "returned", !.calls = 0, !.ret = "OkSome",
                            !.response = Some(from_cache(parsed[1], l.request.request,
                                                         l.request.provider_name))])

\* A cache_lookup that hands the model name to from_cache as the provider name.
LookupReturnModelName(result) ==
    LET l == lookup[1]
        parsed == CacheLookupResult(result)
    IN  IF result = <<>>
        THEN Some([l EXCEPT !.pc = "returned", !.calls = 0, !.ret = "OkNone"])
        ELSE IF parsed = None
        THEN Some([l EXCEPT !.pc = "returned", !.calls = 0, !.ret = "ErrCache"])
        ELSE Some([l EXCEPT !.pc = "returned", !.calls = 0, !.ret = "OkSome",
                            !.response = Some(from_cache(parsed[1], l.request.request,
                                                         l.request.model_name))])

\* A cache_lookup that takes a reply it cannot parse for a miss.
LookupReturnCorruptIsMiss(result) ==
    LET l == lookup[1]
        parsed == IF result = <<>> THEN None ELSE CacheLookupResult(result)
    IN  IF parsed = None
        THEN Some([l EXCEPT !.pc = "returned", !.calls = 0, !.ret = "OkNone"])
        ELSE Some([l EXCEPT !.pc = "returned", !.calls = 0, !.ret = "OkSome",
                            !.response = Some(from_cache(parsed[1], l.request.request,
                                                         l.request.provider_name))])

\* A cache_lookup that parses whatever the store replied, the empty reply too.
LookupReturnEmptyIsError(result) ==
    LET l == lookup[1]
        parsed == IF result = <<>> THEN None ELSE CacheLookupResult(result)
    IN  IF parsed = None
        THEN Some([l EXCEPT !.pc = "returned", !.calls = 0, !.ret = "ErrCache"])
        ELSE Some([l EXCEPT !.pc = "returned", !.calls = 0, !.ret = "OkSome",
                            !.response = Some(from_cache(parsed[1], l.request.request,
                                                         l.request.provider_name))])

\* The rest of cache_lookup on a reply of the store.
LookupReturn(result) ==
    LET l == lookup[1]
        parsed == CacheLookupResult(result)
    IN  IF result = <<>>
        THEN Some([l EXCEPT !.pc = "returned", !.calls = 0, !.ret = "OkNone"])
        ELSE IF parsed = None
        THEN Some([l EXCEPT !.pc = "returned", !.calls = 0, !.ret = "ErrCache"])
        ELSE Some([l EXCEPT !.pc = "returned", !.calls = 0, !.ret = "OkSome",
                            !.response = Some(from_cache(parsed[1], l.request.request,
                                                         l.request.provider_name))])

\* A cache_lookup that sends the query again when the store has failed.
LookupFailQueriesAgain == Some([lookup[1] EXCEPT !.queries = @ + 1])

\* A cache_lookup that takes a failed query for a miss.
LookupFailIsMiss == Some([lookup[1] EXCEPT !.pc = "returned", !.calls = 0, !.ret = "OkNone"])

\* The ? operator on run_query(...).await: the store's error is returned.
LookupFail == Some([lookup[1] EXCEPT !.pc = "returned", !.calls = 0, !.ret = "ErrStore"])

\* The call's state with the reply of run_query noted in it.
WithReply(l, ok, text) == Some([l[1] EXCEPT !.reply = Some([ok |-> ok, text |-> text])])

\* A cache_lookup that, on a hit, stores the row it found again under the time
\* of the read.
RunQueryOkRefreshing ==
    /\ lookup # None
    /\ lookup[1].pc = "querying"
    /\ \E result \in QueryResults(store, lookup[1].query[1].template,
                                  lookup[1].query[1].params, now) :
           /\ lookup' = WithReply(LookupReturn(result), TRUE, result)
           /\ store' = IF result = <<>>
                       THEN store
                       ELSE Append(store,
                                [short_cache_key |-> ParseUInt(lookup[1].query[1].params.short_cache_key),
                                 long_cache_key |-> lookup[1].query[1].params.long_cache_key,
                                 output |-> result[1].output,
                                 raw_request |-> result[1].raw_request,
                                 raw_response |-> result[1].raw_response,
                                 timestamp |-> now])
    /\ UNCHANGED <<now, spawned, writes, fps, cache_key, derived, cache_options, inference>>

\* run_query answers: the store evaluates the query and cache_lookup returns.
RunQueryOk ==
    /\ lookup # None
    /\ lookup[1].pc = "querying"
    /\ \E result \in QueryResults(store, lookup[1].query[1].template,
                                  lookup[1].query[1].params, now) :
           lookup' = WithReply(LookupReturn(result), TRUE, result)
    /\ UNCHANGED <<store, now, spawned, writes, fps, cache_key, derived, cache_options, inference>>

\* run_query fails: the ? operator returns the store's error.
RunQueryErr ==
    /\ lookup # None
    /\ lookup[1].pc = "querying"
    /\ lookup' = WithReply(LookupFail, FALSE, <<>>)
    /\ UNCHANGED <<store, now, spawned, writes, fps, cache_key, derived, cache_options, inference>>

\* The caller of cache_lookup takes the returned value; the call is over.
TakeLookupResult ==
    /\ lookup # None
    /\ lookup[1].pc = "returned"
    /\ lookup' = None
    /\ UNCHANGED <<store, now, spawned, writes, fps, cache_key, derived, cache_options, inference>>

(***************************************************************************)
(* The cache specification.                                                *)
(***************************************************************************)
ZeroKey == Zeros(DigestLen)
NoFingerprints == <<None, None>>
NoOptions == [via |-> "none"]
NoInference == [pc |-> "idle", request |-> R1, data |-> DataA, writes_before |-> 0]

Init ==
    /\ store = <<>>
    /\ now = 0
    /\ spawned = <<>>
    /\ writes = <<>>
    /\ lookup = None
    /\ fps = NoFingerprints
    /\ cache_key = ZeroKey
    /\ derived = <<>>
    /\ cache_options = NoOptions
    /\ inference = NoInference

Next ==
    \/ \E input \in WriteInputs : start_cache_write(input[1], input[2])
    \/ \E i \in 1..MaxWrites : InsertOk(i)
    \/ \E i \in 1..MaxWrites : InsertFail(i)
    \/ Tick
    \/ \E input \in LookupInputs : cache_lookup(input[1], input[2])
    \/ RunQueryOk
    \/ RunQueryErr
    \/ TakeLookupResult

Spec == Init /\ [][Next]_vars

\* The write path with its callers: a caller may go on to further writes and to
\* lookups of R1, or take no further step.  The runtime keeps polling a task that
\* tokio::spawn has handed to it: the write of a pending task is not put off
\* forever.  No step of a caller is fair.
NextDetached ==
    \/ \E input \in WriteInputs : start_cache_write(input[1], input[2])
    \/ \E i \in 1..MaxWrites : InsertOk(i)
    \/ \E i \in 1..MaxWrites : InsertFail(i)
    \/ Tick
    \/ cache_lookup(R1, None)
    \/ RunQueryOk
    \/ RunQueryErr
    \/ TakeLookupResult

SpecFair ==
    /\ Init
    /\ [][NextDetached]_vars
    /\ \A i \in 1..MaxWrites : WF_vars(InsertOk(i) \/ InsertFail(i))

(***************************************************************************)
(* The same program over a table that already holds a row whose output     *)
(* column is not the JSON text of a list of content blocks: a row with the *)
(* keys of R1 that serde_json::from_str cannot turn into a                 *)
(* CacheLookupResult.                                                      *)
(***************************************************************************)
CorruptOutput == <<"not json">>

CorruptRow ==
    [short_cache_key |-> get_short_key(get_cache_key(R1).key)[1],
     long_cache_key |-> get_long_key(get_cache_key(R1).key),
     output |-> CorruptOutput,
     raw_request |-> DataA.raw_request,
     raw_response |-> DataA.raw_response,
     timestamp |-> 0]

InitCorrupt ==
    /\ store = <<CorruptRow>>
    /\ now = 0
    /\ spawned = <<>>
    /\ writes = <<>>
    /\ lookup = None
    /\ fps = NoFingerprints
    /\ cache_key = ZeroKey
    /\ derived = <<>>
    /\ cache_options = NoOptions
    /\ inference = NoInference

SpecCorrupt == InitCorrupt /\ [][Next]_vars

(***************************************************************************)
(* The fingerprint specification: get_cache_key applied to pairs of        *)
(* requests drawn from all the model and provider names and bodies.        *)
(***************************************************************************)
Fingerprint(slot, mpr) ==
    /\ fps' = [fps EXCEPT ![slot] = Some([request |-> mpr, result |-> get_cache_key(mpr)])]
    /\ UNCHANGED <<store, now, spawned, writes, lookup, cache_key, derived, cache_options, inference>>

NextFingerprint == \E slot \in 1..2, mpr \in ModelProviderRequest : Fingerprint(slot, mpr)

SpecFingerprint == Init /\ [][NextFingerprint]_vars

\* get_cache_key on the names a &str admits: a name may hold a zero byte.
ModelNamesAny == ModelNames \cup {<<97, 0, 98>>}
ProviderNamesAny == ProviderNames \cup {<<98, 0, 99>>}
ModelProviderRequestAny ==
    [request : ModelInferenceRequest, model_name : ModelNamesAny,
     provider_name : ProviderNamesAny]

NextNames == \E slot \in 1..2, mpr \in ModelProviderRequestAny : Fingerprint(slot, mpr)

SpecNames == Init /\ [][NextNames]_vars

(***************************************************************************)
(* The key specification: the two forms derived from a CacheKey, for the   *)
(* digests of the requests and for digests chosen byte by byte.  The bytes *)
(* 5 to 8 are zero to keep the short key within the numbers TLC computes   *)
(* with.                                                                   *)
(***************************************************************************)
MaxDerivations == 2

ChosenDigests ==
    {<<b1, b2, b3, b4>> \o Zeros(DigestLen - 6) \o <<b31, b32>> :
        b1 \in {0, 1, 255}, b2 \in {0, 16, 255}, b3 \in {0, 171}, b4 \in {0, 127},
        b31 \in {0, 7}, b32 \in {0, 255}}

Digests ==
    ChosenDigests
        \cup {get_cache_key(mpr).key : mpr \in {r \in ModelProviderRequest : get_cache_key(r).ok}}

InitKey ==
    /\ store = <<>>
    /\ now = 0
    /\ spawned = <<>>
    /\ writes = <<>>
    /\ lookup = None
    /\ fps = NoFingerprints
    /\ cache_key \in Digests
    /\ derived = <<>>
    /\ cache_options = NoOptions
    /\ inference = NoInference

\* One call of get_short_key and one of get_long_key on the key.
DeriveKeys ==
    /\ Len(derived) < MaxDerivations
    /\ derived' = Append(derived, [short |-> get_short_key(cache_key),
                                   long |-> get_long_key(cache_key)])
    /\ UNCHANGED <<store, now, spawned, writes, lookup, fps, cache_key, cache_options, inference>>

NextKey == DeriveKeys

SpecKey == InitKey /\ [][NextKey]_vars

(***************************************************************************)
(* The options specification: a CacheOptions value built by                *)
(* Default::default() or by serde from a JSON object in which each field   *)
(* is present or omitted.                                                  *)
(***************************************************************************)
\* fn default_write
default_write == TRUE

\* #[derive(Default)]: each field by the Default of its type.
CacheOptionsDefault == [read |-> FALSE, write |-> FALSE, max_age_s |-> None]

\* #[derive(Deserialize)] with the serde attributes of the fields.  A field of the
\* JSON object is None when omitted and Some(value) when present; the value of
\* max_age_s is itself an Option (null or a number).
CacheOptionsDeserialize(json) ==
    [read |-> IF json.read = None THEN FALSE ELSE json.read[1],
     write |-> IF json.write = None THEN default_write ELSE json.write[1],
     max_age_s |-> IF json.max_age_s = None THEN None ELSE json.max_age_s[1]]

CacheOptionsJson ==
    [read : {None, Some(FALSE), Some(TRUE)},
     write : {None, Some(FALSE), Some(TRUE)},
     max_age_s : {None, Some(None)} \cup {Some(Some(s)) : s \in 0..MaxAgeInput}]

EmptyJson == [read |-> None, write |-> None, max_age_s |-> None]

BuildDefault ==
    /\ cache_options' = [via |-> "default", json |-> EmptyJson, value |-> CacheOptionsDefault]
    /\ UNCHANGED <<store, now, spawned, writes, lookup, fps, cache_key, derived, inference>>

BuildFromJson(json) ==
    /\ cache_options' = [via |-> "deserialize", json |-> json,
                         value |-> CacheOptionsDeserialize(json)]
    /\ UNCHANGED <<store, now, spawned, writes, lookup, fps, cache_key, derived, inference>>

NextOptions ==
    \/ BuildDefault
    \/ \E json \in CacheOptionsJson : BuildFromJson(json)

SpecOptions == Init /\ [][NextOptions]_vars

(***************************************************************************)
(* The inference call of the surrounding gateway, which consults the       *)
(* CacheOptions of the call: cache_lookup before the provider is called    *)
(* when read is set, the provider on a miss, start_cache_write after the   *)
(* provider has answered when write is set.                                *)
(***************************************************************************)
\* The options supplied with the inference calls, and the calls' requests with
\* the data the provider answers.
InferenceOptions ==
    {EmptyJson,
     [read |-> Some(TRUE), write |-> None, max_age_s |-> None],
     [read |-> Some(TRUE), write |-> Some(FALSE), max_age_s |-> Some(Some(1))],
     [read |-> None, write |-> Some(FALSE), max_age_s |-> None]}

InferenceInputs == {<<R1, DataA>>, <<R1, DataB>>, <<BadRequest, DataA>>}

\* An inference call that looks the request up whatever the read flag.
InferBeginAlwaysReads(json, mpr, data) ==
    /\ inference.pc = "idle"
    /\ lookup = None
    /\ cache_options' = [via |-> "deserialize", json |-> json,
                         value |-> CacheOptionsDeserialize(json)]
    /\ inference' = [pc |-> "lookup", request |-> mpr, data |-> data,
                     writes_before |-> Len(writes)]
    /\ UNCHANGED <<store, now, spawned, writes, lookup, fps, cache_key, derived>>

\* An inference call begins: its CacheOptions are built; if read is false the
\* lookup is skipped entirely.
InferBegin(json, mpr, data) ==
    /\ inference.pc = "idle"
    /\ lookup = None
    /\ cache_options' = [via |-> "deserialize", json |-> json,
                         value |-> CacheOptionsDeserialize(json)]
    /\ inference' = [pc |-> IF CacheOptionsDeserialize(json).read THEN "lookup" ELSE "provider",
                     request |-> mpr, data |-> data, writes_before |-> Len(writes)]
    /\ UNCHANGED <<store, now, spawned, writes, lookup, fps, cache_key, derived>>

\* The gateway calls cache_lookup with the request and the bound of the options.
InferLookup ==
    /\ inference.pc = "lookup"
    /\ cache_lookup(inference.request, cache_options.value.max_age_s)

\* The lookup has returned: a hit ends the call without the provider, a miss goes
\* on to the provider; on an error the gateway either goes on or gives up.
InferLookupDone ==
    /\ inference.pc = "lookup"
    /\ lookup # None
    /\ lookup[1].pc = "returned"
    /\ \E next \in (IF lookup[1].ret = "OkSome" THEN {"done"}
                     ELSE IF lookup[1].ret = "OkNone" THEN {"provider"}
                     ELSE {"provider", "done"}) :
           inference' = [inference EXCEPT !.pc = next]
    /\ lookup' = None
    /\ UNCHANGED <<store, now, spawned, writes, fps, cache_key, derived, cache_options>>

\* The provider has answered; if write is false the hand-off is skipped entirely.
InferProvider ==
    /\ inference.pc = "provider"
    /\ inference' = [inference EXCEPT !.pc = IF cache_options.value.write THEN "write" ELSE "done"]
    /\ UNCHANGED <<store, now, spawned, writes, lookup, fps, cache_key, derived, cache_options>>

\* The gateway offers the exchange to the writer, once.
InferWrite ==
    /\ inference.pc = "write"
    /\ Len(writes) = inference.writes_before
    /\ start_cache_write(inference.request, inference.data)

\* The call ends, after the hit, after the provider, or after the hand-off.
InferEnd ==
    /\ \/ inference.pc = "done"
       \/ inference.pc = "write" /\ Len(writes) > inference.writes_before
    /\ inference' = NoInference
    /\ UNCHANGED <<store, now, spawned, writes, lookup, fps, cache_key, derived, cache_options>>

NextGateway ==
    \/ \E json \in InferenceOptions, input \in InferenceInputs :
           InferBegin(json, input[1], input[2])
    \/ InferLookup
    \/ RunQueryOk
    \/ RunQueryErr
    \/ InferLookupDone
    \/ InferProvider
    \/ InferWrite
    \/ InferEnd
    \/ \E i \in 1..MaxWrites : InsertOk(i)
    \/ \E i \in 1..MaxWrites : InsertFail(i)
    \/ Tick

SpecGateway == Init /\ [][NextGateway]_vars

(***************************************************************************)
(* Definitions used to state the properties.                               *)
(***************************************************************************)
\* The step in which the store's reply reaches cache_lookup and the call returns.
LookupReturns ==
    /\ lookup # None
    /\ lookup[1].pc = "querying"
    /\ lookup' # None
    /\ lookup'[1].pc = "returned"

LookupReturned == lookup # None /\ lookup[1].pc = "returned"

\* The rows of the store that carry the two keys of a request.
KeyRows(mpr) ==
    LET key == get_cache_key(mpr).key
        long_cache_key == get_long_key(key)
        short_cache_key == get_short_key(key)
    IN  {j \in 1..Len(store) :
            /\ store[j].long_cache_key = long_cache_key
            /\ Some(store[j].short_cache_key) = short_cache_key}

RowData(j) ==
    [output |-> deserialize_json_string(store[j].output)[1],
     raw_request |-> store[j].raw_request,
     raw_response |-> store[j].raw_response]

DataOf(r) == [output |-> r.output, raw_request |-> r.raw_request, raw_response |-> r.raw_response]

\* The write call i spawned an insert that is done, and every other row with the
\* same keys is older than its row.
WrittenLatest(i) ==
    /\ writes[i].ret = "Ok"
    /\ spawned[writes[i].task].state = "done"
    /\ \A j \in KeyRows(writes[i].request) \ {spawned[writes[i].task].inserted} :
           store[j].timestamp < store[spawned[writes[i].task].inserted].timestamp

(***************************************************************************)
(* C1.  Round trip as stated: after start_cache_write has returned Ok for  *)
(* a request, a cache_lookup with the same request and max_age_s = None    *)
(* that the store answers is a hit with the output, raw request and raw    *)
(* response of the latest such call.  The code does not give this: the     *)
(* insert may be pending or may have failed.                               *)
(***************************************************************************)
C1_RoundTripAfterCall ==
    [][(LookupReturns /\ lookup[1].max_age_s = None /\ lookup'[1].ret # "ErrStore")
        => \A i \in 1..lookup[1].calls :
              (/\ writes[i].ret = "Ok"
               /\ writes[i].request = lookup[1].request
               /\ \A k \in (i + 1)..lookup[1].calls : writes[k].request # lookup[1].request)
              => /\ lookup'[1].ret = "OkSome"
                 /\ DataOf(lookup'[1].response[1]) = DataOf(writes[i])]_vars

(***************************************************************************)
(* C1 (amended).  Once the insert spawned by start_cache_write is done and *)
(* every other row with the same keys is older, a cache_lookup with the    *)
(* same request and max_age_s = None that the store answers is a hit with  *)
(* the output, raw request and raw response that were written.             *)
(***************************************************************************)
C1_RoundTrip ==
    [][(LookupReturns /\ lookup[1].max_age_s = None /\ lookup'[1].ret # "ErrStore")
        => \A i \in 1..Len(writes) :
              (writes[i].request = lookup[1].request /\ WrittenLatest(i))
              => /\ lookup'[1].ret = "OkSome"
                 /\ DataOf(lookup'[1].response[1]) = DataOf(writes[i])]_vars

C1_Witness ==
    /\ LookupReturned
    /\ lookup[1].max_age_s = None
    /\ lookup[1].ret = "OkSome"
    /\ \E i \in 1..Len(writes) :
          /\ writes[i].request = lookup[1].request
          /\ WrittenLatest(i)
          /\ DataOf(lookup[1].response[1]) = DataOf(writes[i])
          /\ writes[i].raw_request = "rawRequestB"

(***************************************************************************)
(* C2.  Freshness boundary as stated: a lookup with max_age_s = Some(S)    *)
(* that the store answers is a hit exactly when a row with the keys has    *)
(* now - T <= S.  The code excludes the row with now - T = S.              *)
(***************************************************************************)
C2_FreshnessInclusive ==
    [][(LookupReturns /\ lookup[1].max_age_s # None /\ lookup'[1].ret # "ErrStore")
        => ((\E j \in KeyRows(lookup[1].request) :
                now - store[j].timestamp <= lookup[1].max_age_s[1])
            <=> lookup'[1].ret = "OkSome")]_vars

(***************************************************************************)
(* C2 (amended).  A lookup with max_age_s = Some(S) that the store answers *)
(* is a hit exactly when a row with the keys has now - T < S; the rows     *)
(* with now - T >= S, the row with now - T = S among them, are excluded,   *)
(* and the hit carries the data of a latest row with now - T < S.          *)
(***************************************************************************)
FreshRows(mpr, s) == {j \in KeyRows(mpr) : now - store[j].timestamp < s}

C2_FreshnessStrict ==
    [][(LookupReturns /\ lookup[1].max_age_s # None /\ lookup'[1].ret # "ErrStore")
        => LET fresh == FreshRows(lookup[1].request, lookup[1].max_age_s[1])
           IN  IF fresh = {}
               THEN lookup'[1].ret = "OkNone"
               ELSE /\ lookup'[1].ret = "OkSome"
                    /\ \E j \in fresh :
                          /\ \A k \in fresh : store[k].timestamp <= store[j].timestamp
                          /\ DataOf(lookup'[1].response[1]) = RowData(j)]_vars

C2_Witness ==
    /\ LookupReturned
    /\ lookup[1].max_age_s = Some(1)
    /\ lookup[1].ret = "OkSome"
    /\ now = 1
    /\ \E j \in KeyRows(lookup[1].request) :
          /\ store[j].timestamp = 1
          /\ DataOf(lookup[1].response[1]) = RowData(j)
    /\ \E j \in KeyRows(lookup[1].request) :
          /\ store[j].timestamp = 0
          /\ DataOf(lookup[1].response[1]) # RowData(j)

(***************************************************************************)
(* C3.  Most recent wins: when rows with the keys of the request exist, a  *)
(* lookup with max_age_s = None that the store answers is a hit with the   *)
(* data of a row whose timestamp is the latest, never of an older row.     *)
(***************************************************************************)
C3_MostRecentWins ==
    [][(/\ LookupReturns
        /\ lookup[1].max_age_s = None
        /\ lookup'[1].ret # "ErrStore"
        /\ KeyRows(lookup[1].request) # {})
        => /\ lookup'[1].ret = "OkSome"
           /\ \E j \in KeyRows(lookup[1].request) :
                 /\ \A k \in KeyRows(lookup[1].request) :
                        store[k].timestamp <= store[j].timestamp
                 /\ DataOf(lookup'[1].response[1]) = RowData(j)]_vars

C3_Witness ==
    /\ LookupReturned
    /\ lookup[1].max_age_s = None
    /\ lookup[1].ret = "OkSome"
    /\ \E j, k \in KeyRows(lookup[1].request) :
          /\ store[j].timestamp < store[k].timestamp
          /\ RowData(j) # RowData(k)
          /\ DataOf(lookup[1].response[1]) = RowData(k)

(***************************************************************************)
(* C4.  Non-blocking write: in the step in which start_cache_write returns *)
(* Ok the spawned insert is still pending and the store has not changed.   *)
(***************************************************************************)
C4_NonBlockingWrite ==
    [][(Len(writes') = Len(writes) + 1 /\ writes'[Len(writes')].ret = "Ok")
        => /\ store' = store
           /\ Len(spawned') = Len(spawned) + 1
           /\ writes'[Len(writes')].task = Len(spawned')
           /\ spawned'[Len(spawned')].state = "pending"]_vars

C4_Witness ==
    \E i \in 1..Len(writes) :
        /\ writes[i].ret = "Ok"
        /\ spawned[writes[i].task].state = "pending"
        /\ store = <<>>

(***************************************************************************)
(* C5.  Write failures never propagate: a call that spawned an insert has  *)
(* returned Ok and keeps that value, and the step in which the insert      *)
(* fails changes neither the values returned by the calls, nor the store,  *)
(* nor a lookup.                                                           *)
(***************************************************************************)
C5_WriteFailureNotPropagated ==
    [][/\ \A i \in 1..Len(writes) :
              writes[i].task # 0 => (writes[i].ret = "Ok" /\ writes'[i] = writes[i])
       /\ (\E t \in 1..Len(spawned) :
              spawned[t].state = "pending" /\ spawned'[t].state = "failed")
          => (writes' = writes /\ store' = store /\ lookup' = lookup /\ now' = now)]_vars

C5_Witness ==
    \E i \in 1..Len(writes) :
        /\ writes[i].ret = "Ok"
        /\ spawned[writes[i].task].state = "failed"

(***************************************************************************)
(* C6.  Sensitivity: with the same model name and provider name, two       *)
(* bodies that differ in a field, the stream flag alone among them, get    *)
(* different cache keys.                                                   *)
(***************************************************************************)
C6_Sensitivity ==
    (/\ fps[1] # None
     /\ fps[2] # None
     /\ fps[1][1].result.ok
     /\ fps[2][1].result.ok
     /\ fps[1][1].request.model_name = fps[2][1].request.model_name
     /\ fps[1][1].request.provider_name = fps[2][1].request.provider_name
     /\ fps[1][1].request.request # fps[2][1].request.request)
    => fps[1][1].result.key # fps[2][1].result.key

C6_Witness ==
    /\ fps[1] # None
    /\ fps[2] # None
    /\ fps[1][1].request = R1
    /\ fps[2][1].request = R3
    /\ fps[1][1].result.ok
    /\ fps[2][1].result.ok
    /\ fps[1][1].result.key # fps[2][1].result.key

C8_PrefixFree ==
    (/\ fps[1] # None
     /\ fps[2] # None
     /\ fps[1][1].request.model_name = <<97>>
     /\ fps[1][1].request.provider_name = <<98, 99>>
     /\ fps[2][1].request.model_name = <<97, 98>>
     /\ fps[2][1].request.provider_name = <<99>>
     /\ fps[1][1].request.request = fps[2][1].request.request
     /\ fps[1][1].result.ok)
    => (fps[2][1].result.ok /\ fps[1][1].result.key # fps[2][1].result.key)

C8_Witness ==
    /\ fps[1] # None
    /\ fps[2] # None
    /\ fps[1][1].request = R1
    /\ fps[2][1].request = R2
    /\ fps[1][1].result.key # fps[2][1].result.key

(***************************************************************************)
(* C9.  Narrow-form derivation: the short key is the little-endian number  *)
(* of the first 8 bytes of the digest, which are the first 8 bytes given   *)
(* by decoding the long key, and repeated derivations give the same two    *)
(* forms.                                                                  *)
(***************************************************************************)
HexValue(c) == (CHOOSE d \in 1..16 : HexDigits[d] = c) - 1

hex_decode(text) ==
    [i \in 1..(Len(text) \div 2) |-> 16 * HexValue(text[2 * i - 1]) + HexValue(text[2 * i])]

\* The number whose little-endian bytes are b[1..8]; the model keeps b[5..8] zero.
LittleEndian64(b) ==
    b[1] + 256 * b[2] + 65536 * b[3] + 16777216 * b[4]

C9_NarrowFromWide ==
    \A i \in 1..Len(derived) :
        /\ Len(derived[i].long) = 2 * DigestLen
        /\ hex_decode(derived[i].long) = cache_key
        /\ \A k \in 5..ShortLen : hex_decode(derived[i].long)[k] = 0
        /\ derived[i].short = Some(LittleEndian64(hex_decode(derived[i].long)))
        /\ derived[i] = derived[1]

C9_Witness ==
    /\ Len(derived) = 2
    /\ cache_key[1] = 255
    /\ cache_key[2] = 16
    /\ cache_key[3] = 171
    /\ cache_key[4] = 127
    /\ derived[2].short = Some(255 + 256 * 16 + 65536 * 171 + 16777216 * 127)

(***************************************************************************)
(* C10.  Canonical defaults: a CacheOptions value built by                 *)
(* Default::default(), or by serde with every field omitted, has           *)
(* read = false, write = true and max_age_s = None.  The derived Default   *)
(* gives write = false.                                                    *)
(***************************************************************************)
C10_CanonicalDefaults ==
    (\/ cache_options.via = "default"
     \/ (cache_options.via = "deserialize" /\ cache_options.json = EmptyJson))
    => cache_options.value = [read |-> FALSE, write |-> TRUE, max_age_s |-> None]

\* The rows of the store that satisfy the predicates of the lookup l at the
\* present time: both keys, and the freshness bound when l has one.
Satisfying(l) ==
    IF l.max_age_s = None THEN KeyRows(l.request) ELSE FreshRows(l.request, l.max_age_s[1])

(***************************************************************************)
(* C11.  A cache miss is not an error: when cache_lookup returns and no    *)
(* stored row satisfies the predicates of the lookup, a store that answers *)
(* replies with the empty result, and on the empty result the call returns *)
(* Ok(None), with no response and no error.                                *)
(***************************************************************************)
C11_MissIsOkNone ==
    [][LookupReturns =>
         LET l == lookup'[1]
         IN  IF ~l.reply[1].ok
             THEN TRUE
             ELSE /\ Satisfying(l) = {} => l.reply[1].text = <<>>
                  /\ l.reply[1].text = <<>> => l.ret = "OkNone" /\ l.response = None]_vars

\* A lookup for R1 without a bound returned Ok(None) on an empty reply while the
\* store holds rows, none of them with the keys of R1.
C11_Witness ==
    /\ LookupReturned
    /\ lookup[1].request = R1
    /\ lookup[1].max_age_s = None
    /\ lookup[1].reply = Some([ok |-> TRUE, text |-> <<>>])
    /\ lookup[1].ret = "OkNone"
    /\ store # <<>>
    /\ KeyRows(R1) = {}

\* The satisfying rows with the latest timestamp, and the rows whose output
\* column cannot be parsed.
LatestSatisfying(l) ==
    LET satisfying == Satisfying(l)
    IN  {j \in satisfying : \A k \in satisfying : store[k].timestamp <= store[j].timestamp}

Corrupt(j) == deserialize_json_string(store[j].output) = None

(***************************************************************************)
(* C12.  A corrupt row is not a miss: when cache_lookup returns on a       *)
(* non-empty reply of the store that cannot be deserialized into a         *)
(* CacheLookupResult, it returns the Cache error, with no response, and    *)
(* never Ok(None) or Ok(Some); when every latest satisfying row is such a  *)
(* row, a lookup that the store answers returns the Cache error, and the   *)
(* Cache error is returned only when a latest satisfying row is such a row.*)
(***************************************************************************)
C12_CorruptIsCacheError ==
    [][LookupReturns =>
         LET l == lookup'[1]
             text == l.reply[1].text
             latest == LatestSatisfying(l)
         IN  IF ~l.reply[1].ok
             THEN TRUE
             ELSE /\ (IF text = <<>> THEN FALSE ELSE CacheLookupResult(text) = None)
                        => l.ret = "ErrCache" /\ l.response = None
                  /\ (latest # {} /\ \A j \in latest : Corrupt(j)) => l.ret = "ErrCache"
                  /\ l.ret = "ErrCache" => \E j \in latest : Corrupt(j)]_vars

\* A lookup for R1 returned the Cache error on a reply that cannot be parsed,
\* while the table holds the corrupt row and a row written for R1.
C12_Witness ==
    /\ LookupReturned
    /\ lookup[1].request = R1
    /\ lookup[1].ret = "ErrCache"
    /\ lookup[1].reply # None
    /\ lookup[1].reply[1].ok
    /\ lookup[1].reply[1].text # <<>>
    /\ CacheLookupResult(lookup[1].reply[1].text) = None
    /\ \E j \in KeyRows(R1) : Corrupt(j)
    /\ \E j \in KeyRows(R1) : ~Corrupt(j)

(***************************************************************************)
(* C13.  A store failure on read is propagated: a cache_lookup whose query *)
(* failed has returned the store's error, not Ok(None), not a hit and not  *)
(* another error; and the store's error is returned only for a failed      *)
(* query.                                                                  *)
(***************************************************************************)
C13_StoreFailurePropagated ==
    LookupReturned =>
        IF lookup[1].reply = None
        THEN lookup[1].ret \in {"ErrSerialization", "ErrCache"}
        ELSE /\ ~lookup[1].reply[1].ok => lookup[1].ret = "ErrStore" /\ lookup[1].response = None
             /\ lookup[1].ret = "ErrStore" => ~lookup[1].reply[1].ok

\* A lookup for R1 without a bound returned the store's error while the table
\* holds a row with the keys of R1.
C13_Witness ==
    /\ LookupReturned
    /\ lookup[1].request = R1
    /\ lookup[1].max_age_s = None
    /\ lookup[1].reply = Some([ok |-> FALSE, text |-> <<>>])
    /\ lookup[1].ret = "ErrStore"
    /\ KeyRows(R1) # {}

(***************************************************************************)
(* C14.  A fingerprint failure is synchronous on the write path: every     *)
(* start_cache_write call whose request cannot be serialized has returned  *)
(* the Serialization error and spawned no task; every task belongs to a    *)
(* call that returned Ok for a request that can be serialized, and every   *)
(* row of the table was inserted by such a task, so no row is ever         *)
(* inserted for the failed call.                                           *)
(***************************************************************************)
C14_FingerprintFailureSynchronous ==
    /\ \A i \in 1..Len(writes) :
           SerializeRequest(writes[i].request.request) = None
               => writes[i].ret = "ErrSerialization" /\ writes[i].task = 0
    /\ \A t \in 1..Len(spawned) :
           \E i \in 1..Len(writes) :
               /\ writes[i].task = t
               /\ writes[i].ret = "Ok"
               /\ SerializeRequest(writes[i].request.request) # None
    /\ \A j \in 1..Len(store) :
           \E t \in 1..Len(spawned) : spawned[t].state = "done" /\ spawned[t].inserted = j

\* A call with the request that cannot be serialized returned the error, and
\* the only task, the one of the other call, has inserted the only row.
C14_Witness ==
    /\ Len(writes) = 2
    /\ writes[1].request = BadRequest
    /\ writes[1].ret = "ErrSerialization"
    /\ writes[2].ret = "Ok"
    /\ Len(spawned) = 1
    /\ spawned[1].state = "done"
    /\ Len(store) = 1

\* The rows of the store with the short key of a request and another long key.
CollidingRows(mpr) ==
    LET key == get_cache_key(mpr).key
        long_cache_key == get_long_key(key)
        short_cache_key == get_short_key(key)
    IN  {j \in 1..Len(store) :
            /\ Some(store[j].short_cache_key) = short_cache_key
            /\ store[j].long_cache_key # long_cache_key}

(***************************************************************************)
(* C15.  The wide key is verified on every read: when cache_lookup returns *)
(* a hit, with or without a freshness bound, the response carries the data *)
(* of a stored row that has both the short and the long key of the request *)
(* (and satisfies the bound), and not the data of a row that has the short *)
(* key of the request and another long key.                                *)
(***************************************************************************)
C15_WideKeyVerified ==
    [][(LookupReturns /\ lookup'[1].ret = "OkSome")
        => /\ \E j \in Satisfying(lookup'[1]) :
                 DataOf(lookup'[1].response[1]) = RowData(j)
           /\ \A j \in CollidingRows(lookup'[1].request) :
                 DataOf(lookup'[1].response[1]) # RowData(j)]_vars

\* A lookup for R2 hit the row written for R2 while the table held, inserted
\* before it and with the same timestamp, a row written for R1, which has the
\* short key of R2 and another long key.
C15_Witness ==
    /\ LookupReturned
    /\ lookup[1].request = R2
    /\ lookup[1].ret = "OkSome"
    /\ Len(store) = 2
    /\ 1 \in CollidingRows(R2)
    /\ 1 \in KeyRows(R1)
    /\ 2 \in KeyRows(R2)
    /\ store[1].timestamp = store[2].timestamp
    /\ DataOf(lookup[1].response[1]) = RowData(2)

(***************************************************************************)
(* C16.  A lookup without a bound ignores age: when a cache_lookup with    *)
(* max_age_s = None returns on an answer of the store, then for every row  *)
(* with the keys of the request, whatever the time passed since its        *)
(* timestamp, the call returns a hit, with the data of that row or of a    *)
(* row with the same keys that is not older.                               *)
(***************************************************************************)
C16_UnboundedIgnoresAge ==
    [][(LookupReturns /\ lookup'[1].max_age_s = None /\ lookup'[1].ret # "ErrStore")
        => \A j \in KeyRows(lookup'[1].request) :
              \A age \in 0..MaxTime :
                 now - store[j].timestamp = age
                    => /\ lookup'[1].ret = "OkSome"
                       /\ \E k \in KeyRows(lookup'[1].request) :
                             /\ store[k].timestamp >= store[j].timestamp
                             /\ DataOf(lookup'[1].response[1]) = RowData(k)]_vars

\* The clock is at its last second and a lookup for R1 without a bound hit a
\* row inserted at time 0, the only row with the keys of R1.
C16_Witness ==
    /\ LookupReturned
    /\ lookup[1].request = R1
    /\ lookup[1].max_age_s = None
    /\ lookup[1].ret = "OkSome"
    /\ now = MaxTime
    /\ \E j \in 1..Len(store) :
          /\ KeyRows(R1) = {j}
          /\ store[j].timestamp = 0
          /\ DataOf(lookup[1].response[1]) = RowData(j)

(***************************************************************************)
(* C17.  Policy gating: a cache_lookup call begins (a store query is       *)
(* prepared) only within an inference call whose CacheOptions have read    *)
(* set, and a start_cache_write call is made (a task is spawned) only      *)
(* within an inference call whose CacheOptions have write set; so a call   *)
(* with read = false makes no lookup and a call with write = false makes   *)
(* no hand-off.                                                            *)
(***************************************************************************)
C17_PolicyGating ==
    [][/\ (lookup = None /\ lookup' # None)
            => inference.pc # "idle" /\ cache_options.value.read
       /\ (writes' # writes \/ Len(spawned') # Len(spawned))
            => inference.pc # "idle" /\ cache_options.value.write]_vars

\* An inference call with read = false and write = false has called the
\* provider and ended its work without a lookup and without a hand-off, after
\* an earlier call with write set had handed a write off.
C17_Witness ==
    /\ inference.pc = "done"
    /\ cache_options.via = "deserialize"
    /\ ~cache_options.value.read
    /\ ~cache_options.value.write
    /\ lookup = None
    /\ inference.writes_before = Len(writes)
    /\ Len(writes) = 1

(***************************************************************************)
(* C18.  The store is append-only: in every step the table keeps each of   *)
(* its rows, unchanged and in its place, and only gains rows at its end;   *)
(* no row is mutated or deleted.  Several rows with the same pair of keys  *)
(* coexist.                                                                *)
(***************************************************************************)
C18_AppendOnly ==
    [][/\ Len(store') >= Len(store)
       /\ \A j \in 1..Len(store) : store'[j] = store[j]]_vars

\* The table holds two rows with the same pair of keys and different data,
\* the second added while the first was there.
C18_Witness ==
    /\ Len(store) = 2
    /\ store[1].short_cache_key = store[2].short_cache_key
    /\ store[1].long_cache_key = store[2].long_cache_key
    /\ store[1].output # store[2].output
    /\ store[1].timestamp < store[2].timestamp

(***************************************************************************)
(* C19.  No retry, at most one row per write: each start_cache_write call  *)
(* has at most one task, the task makes at most one insert attempt, and    *)
(* each row of the table is the row of exactly one task; a task whose      *)
(* insert failed made one attempt and has no row, and a call that failed   *)
(* to compute its keys has no task and so makes no attempt.                *)
(***************************************************************************)
C19_NoRetryOneRow ==
    /\ \A t \in 1..Len(spawned) :
           /\ spawned[t].attempts <= 1
           /\ Cardinality({i \in 1..Len(writes) : writes[i].task = t}) = 1
           /\ spawned[t].state = "pending" => spawned[t].attempts = 0 /\ spawned[t].inserted = 0
           /\ spawned[t].state = "failed" => spawned[t].attempts = 1 /\ spawned[t].inserted = 0
           /\ spawned[t].state = "done" => spawned[t].attempts = 1
    /\ \A j \in 1..Len(store) :
           Cardinality({t \in 1..Len(spawned) :
                           spawned[t].state = "done" /\ spawned[t].inserted = j}) = 1
    /\ \A i \in 1..Len(writes) :
           IF writes[i].ret = "Ok"
           THEN writes[i].task \in 1..Len(spawned)
           ELSE writes[i].task = 0
    /\ Len(store) <= Len(writes)

\* Of two calls that returned Ok one task failed and left no row, the other
\* inserted its one row; both made one attempt.
C19_Witness ==
    /\ Len(writes) = 2
    /\ Len(spawned) = 2
    /\ spawned[1].state = "failed"
    /\ spawned[1].attempts = 1
    /\ spawned[2].state = "done"
    /\ spawned[2].attempts = 1
    /\ Len(store) = 1

\* The i-th start_cache_write call has returned Ok; the insert it spawned has ended.
ReturnedOk(i) == IF i \in 1..Len(writes) THEN writes[i].ret = "Ok" ELSE FALSE

InsertEnded(i) ==
    IF i \in 1..Len(writes)
    THEN IF writes[i].task \in 1..Len(spawned)
         THEN spawned[writes[i].task].state \in {"done", "failed"}
         ELSE FALSE
    ELSE FALSE

(***************************************************************************)
(* C20.  The detached write completes on its own: once a start_cache_write *)
(* call has returned Ok, its spawned insert eventually is done or has      *)
(* failed, given only that the runtime runs the spawned task; no further   *)
(* step of any caller is needed.                                           *)
(***************************************************************************)
C20_DetachedWriteCompletes ==
    \A i \in 1..MaxWrites : ReturnedOk(i) ~> InsertEnded(i)

\* Both calls returned Ok and both inserts have ended, one done and one failed,
\* while a lookup of the caller is still with the store.
C20_Witness ==
    /\ Len(writes) = 2
    /\ \A i \in 1..2 : writes[i].ret = "Ok"
    /\ spawned[writes[1].task].state = "done"
    /\ spawned[writes[2].task].state = "failed"
    /\ lookup # None
    /\ lookup[1].pc = "querying"

(***************************************************************************)
(* C21.  General prefix-freedom as stated: for any two distinct pairs of   *)
(* model name and provider name, names with a zero byte included, and the  *)
(* same request body, the bytes fed to the hash differ, so the keys        *)
(* differ.  The code does not give this: the names are fed as they are,    *)
(* and model "a\0b" with provider "c" feeds the same bytes as model "a"    *)
(* with provider "b\0c".                                                   *)
(***************************************************************************)
C21_GeneralPrefixFree ==
    (/\ fps[1] # None
     /\ fps[2] # None
     /\ fps[1][1].result.ok
     /\ fps[2][1].result.ok
     /\ fps[1][1].request.request = fps[2][1].request.request
     /\ <<fps[1][1].request.model_name, fps[1][1].request.provider_name>>
            # <<fps[2][1].request.model_name, fps[2][1].request.provider_name>>)
    => fps[1][1].result.key # fps[2][1].result.key

\* The short key that the digest encoded by a long key gives.
ShortOfLong(long_cache_key) ==
    LittleEndian64(hex_decode(SubSeq(long_cache_key, 1, 2 * ShortLen)))

(***************************************************************************)
(* C22.  The stored key pair is consistent: every row of the table, and    *)
(* every row handed to a spawned task, has a long key of 64 hex digits and *)
(* a short key equal to the little-endian number of the first 8 bytes of   *)
(* the digest that the long key encodes.                                   *)
(***************************************************************************)
C22_KeyPairConsistent ==
    /\ \A j \in 1..Len(store) :
           /\ Len(store[j].long_cache_key) = 2 * DigestLen
           /\ store[j].short_cache_key = ShortOfLong(store[j].long_cache_key)
    /\ \A t \in 1..Len(spawned) :
           /\ Len(spawned[t].row.long_cache_key) = 2 * DigestLen
           /\ spawned[t].row.short_cache_key = ShortOfLong(spawned[t].row.long_cache_key)

\* The table holds a row written for R1 and a row written for R2, with
\* different long keys and a short key that is not zero.
C22_Witness ==
    /\ Len(store) = 2
    /\ KeyRows(R1) # {}
    /\ KeyRows(R2) # {}
    /\ store[1].long_cache_key # store[2].long_cache_key
    /\ store[1].short_cache_key > 255
    /\ store[1].short_cache_key = ShortOfLong(store[1].long_cache_key)

(***************************************************************************)
(* C23.  A freshness bound that excludes every row is a miss: when a       *)
(* cache_lookup with max_age_s = Some(S) returns on an answer of the store *)
(* and no row with the keys of the request is younger than S seconds, it   *)
(* returns Ok(None), not an error and not a hit, also when older rows with *)
(* the keys exist; with S = 0 that is every lookup.                        *)
(***************************************************************************)
C23_ExcludingBoundIsMiss ==
    [][(/\ LookupReturns
        /\ lookup'[1].max_age_s # None
        /\ lookup'[1].ret # "ErrStore")
        => LET l == lookup'[1]
               S == l.max_age_s[1]
               rows == KeyRows(l.request)
           IN  /\ (\A j \in rows : now - store[j].timestamp >= S)
                      => l.ret = "OkNone" /\ l.response = None
               /\ S = 0 => l.ret = "OkNone" /\ l.response = None]_vars

\* A lookup for R1 with a bound of zero seconds returned Ok(None) on an empty
\* reply, and the table holds a row with the keys of R1.
C23_Witness ==
    /\ LookupReturned
    /\ lookup[1].request = R1
    /\ lookup[1].max_age_s = Some(0)
    /\ lookup[1].ret = "OkNone"
    /\ lookup[1].reply = Some([ok |-> TRUE, text |-> <<>>])
    /\ KeyRows(R1) # {}

\* The replies the store may give at the present time to the query that
\* cache_lookup prepares for a request and a bound.
RepliesFor(mpr, max_age_s) ==
    LET key == get_cache_key(mpr).key
    IN  QueryResults(store, QueryTemplate(max_age_s),
                     QueryParams(get_short_key(key)[1], get_long_key(key), max_age_s), now)

(***************************************************************************)
(* C24.  Query variant selection: the query of a cache_lookup has the      *)
(* freshness predicate, and binds lookback_s (to the decimal text of the   *)
(* bound), if and only if max_age_s is Some; in both variants the short    *)
(* and the long key of the request are bound, and a reply of the store     *)
(* has at most one row.  The two variants differ in the freshness          *)
(* predicate alone: with a bound longer than the age of every row the      *)
(* query with the predicate has the replies of the query without it (told  *)
(* of the table at the times when no lookup is in progress, which are all  *)
(* the tables and times there are).                                        *)
(***************************************************************************)
C24_QueryVariant ==
    /\ (IF lookup = None THEN FALSE ELSE lookup[1].query # None)
           => LET l == lookup[1]
                  q == l.query[1]
                  key == get_cache_key(l.request).key
              IN  /\ (q.template = "lookback") <=> (l.max_age_s # None)
                  /\ (q.params.lookback_s # None) <=> (l.max_age_s # None)
                  /\ l.max_age_s # None => q.params.lookback_s = Some(to_string(l.max_age_s[1]))
                  /\ Some(ParseUInt(q.params.short_cache_key)) = get_short_key(key)
                  /\ q.params.long_cache_key = get_long_key(key)
                  /\ l.reply # None => Len(l.reply[1].text) <= 1
    /\ lookup = None
           => \A mpr \in {R1, R2} :
                 LET unbounded == RepliesFor(mpr, None)
                 IN  /\ RepliesFor(mpr, Some(MaxTime + 1)) = unbounded
                     /\ \A text \in unbounded : Len(text) <= 1

\* A lookup with a bound and the query with the predicate has returned a hit of
\* one row while two rows with the keys of the request are in the table.
C24_Witness ==
    /\ LookupReturned
    /\ lookup[1].request = R1
    /\ lookup[1].max_age_s = Some(1)
    /\ lookup[1].query[1].template = "lookback"
    /\ lookup[1].query[1].params.lookback_s = Some(<<"1">>)
    /\ lookup[1].ret = "OkSome"
    /\ Len(lookup[1].reply[1].text) = 1
    /\ Cardinality(KeyRows(R1)) = 2
    /\ store[1].timestamp = store[2].timestamp

(***************************************************************************)
(* C25.  Single exchange per read: a cache_lookup call makes at most one   *)
(* store query; it makes none when the request cannot be serialized, and   *)
(* then has returned the Serialization error; while the query is with the  *)
(* store the call has returned nothing and holds no response; a result     *)
(* that depends on the store (Ok(None), a hit, the store's error, the      *)
(* Cache error of a reply) is there only after the one reply.              *)
(***************************************************************************)
C25_SingleExchange ==
    lookup # None =>
        LET l == lookup[1]
        IN  /\ l.queries <= 1
            /\ SerializeRequest(l.request.request) = None
                  => /\ l.queries = 0
                     /\ l.pc = "returned"
                     /\ l.ret = "ErrSerialization"
                     /\ l.reply = None
            /\ l.pc = "querying"
                  => l.queries = 1 /\ l.ret = "Pending" /\ l.reply = None /\ l.response = None
            /\ l.ret \in {"OkNone", "OkSome", "ErrStore"}
                  => l.pc = "returned" /\ l.queries = 1 /\ l.reply # None
            /\ l.response # None => l.ret = "OkSome"
            /\ l.reply # None => l.pc = "returned" /\ l.queries = 1

\* A lookup of the request that cannot be serialized has returned the error
\* with no query made, while the table holds a row.
C25_Witness ==
    /\ LookupReturned
    /\ lookup[1].request = BadRequest
    /\ lookup[1].ret = "ErrSerialization"
    /\ lookup[1].queries = 0
    /\ lookup[1].query = None
    /\ store # <<>>

(***************************************************************************)
(* C26.  Hit reconstruction: the response of a hit has the output (parsed  *)
(* from the output text), the raw request and the raw response of the row  *)
(* that the store replied, the request and the provider name that the      *)
(* lookup was called with, and is marked as served from the cache.         *)
(***************************************************************************)
C26_HitReconstruction ==
    (LookupReturned /\ lookup[1].ret = "OkSome")
        => LET l == lookup[1]
               line == l.reply[1].text[1]
               response == l.response[1]
           IN  /\ Some(response.output) = deserialize_json_string(line.output)
               /\ response.raw_request = line.raw_request
               /\ response.raw_response = line.raw_response
               /\ response.system = l.request.request.system
               /\ response.model_provider_name = l.request.provider_name
               /\ response.cached

\* A lookup for R2 hit the row written with DataC: the response has the data
\* of the row, the provider name "c" of the lookup and the cached mark.
C26_Witness ==
    /\ LookupReturned
    /\ lookup[1].request = R2
    /\ lookup[1].ret = "OkSome"
    /\ lookup[1].response[1].output = DataC.output
    /\ lookup[1].response[1].raw_request = DataC.raw_request
    /\ lookup[1].response[1].raw_response = DataC.raw_response
    /\ lookup[1].response[1].model_provider_name = <<99>>
    /\ lookup[1].response[1].cached

\* The spawned inserts that are pending.
Pending == {t \in 1..Len(spawned) : spawned[t].state = "pending"}

(***************************************************************************)
(* C27.  No cap on in-flight writes: whatever the number of pending        *)
(* inserts, a further start_cache_write call can be made (up to the number *)
(* of calls that the model follows), and every call made with a request    *)
(* that can be serialized has returned Ok and spawned an insert of its     *)
(* own.                                                                    *)
(***************************************************************************)
C27_NoCapOnWrites ==
    /\ Len(writes) < MaxWrites
           => \A input \in {<<R1, DataA>>, <<R2, DataC>>} :
                  ENABLED start_cache_write(input[1], input[2])
    /\ \A i \in 1..Len(writes) :
           SerializeRequest(writes[i].request.request) # None
               => writes[i].ret = "Ok" /\ writes[i].task \in 1..Len(spawned)
    /\ Cardinality({i \in 1..Len(writes) : writes[i].ret = "Ok"}) = Len(spawned)

\* As many calls as the model follows have returned Ok, each made while the
\* inserts of all the earlier ones were pending: all the inserts are pending.
C27_Witness ==
    /\ Len(writes) = MaxWrites
    /\ \A i \in 1..MaxWrites : writes[i].ret = "Ok"
    /\ Cardinality(Pending) = MaxWrites
    /\ MaxWrites >= 2

\* The calls i and k, made in this order for the request of the lookup in
\* progress, both returned Ok and both their inserts are done.
BothInserted(i, k) ==
    /\ i < k
    /\ writes[i].request = lookup[1].request
    /\ writes[k].request = lookup[1].request
    /\ writes[i].ret = "Ok"
    /\ writes[k].ret = "Ok"
    /\ spawned[writes[i].task].state = "done"
    /\ spawned[writes[k].task].state = "done"

\* The timestamp of the row that the insert of call i put into the table.
InsertedAt(i) == store[spawned[writes[i].task].inserted].timestamp

(***************************************************************************)
(* C28.  Call order as stated: when two start_cache_write calls for the    *)
(* same request were made one after the other and both inserts are done,   *)
(* a cache_lookup with max_age_s = None that the store answers returns the *)
(* data of the later call.  The code does not give this: the inserts are   *)
(* detached and may reach the store in either order, and two rows          *)
(* inserted in the same second may be returned in either order.            *)
(***************************************************************************)
C28_CallOrderWins ==
    [][(LookupReturns /\ lookup[1].max_age_s = None /\ lookup'[1].ret # "ErrStore")
        => \A i, k \in 1..Len(writes) :
              (BothInserted(i, k) /\ KeyRows(lookup[1].request)
                                       = {spawned[writes[i].task].inserted,
                                          spawned[writes[k].task].inserted})
              => /\ lookup'[1].ret = "OkSome"
                 /\ DataOf(lookup'[1].response[1]) = DataOf(writes[k])]_vars

(***************************************************************************)
(* C28 (amended).  When two start_cache_write calls for the same request   *)
(* were made one after the other, both inserts are done and their rows are *)
(* the rows with the keys of the request, a cache_lookup with              *)
(* max_age_s = None that the store answers is a hit with the data of one   *)
(* of the two calls: of the call whose row has the later timestamp,        *)
(* whichever call was made first, and of either when the timestamps are    *)
(* equal.                                                                  *)
(***************************************************************************)
C28_InsertOrderWins ==
    [][(LookupReturns /\ lookup[1].max_age_s = None /\ lookup'[1].ret # "ErrStore")
        => \A i, k \in 1..Len(writes) :
              (BothInserted(i, k) /\ KeyRows(lookup[1].request)
                                       = {spawned[writes[i].task].inserted,
                                          spawned[writes[k].task].inserted})
              => /\ lookup'[1].ret = "OkSome"
                 /\ DataOf(lookup'[1].response[1]) \in {DataOf(writes[i]), DataOf(writes[k])}
                 /\ InsertedAt(i) < InsertedAt(k)
                       => DataOf(lookup'[1].response[1]) = DataOf(writes[k])
                 /\ InsertedAt(k) < InsertedAt(i)
                       => DataOf(lookup'[1].response[1]) = DataOf(writes[i])]_vars

\* The call with DataA was made before the call with DataB, the insert of the
\* second call reached the store first and a second before the insert of the
\* first, and the lookup returned the data of the first call.
C28_Witness ==
    /\ LookupReturned
    /\ lookup[1].max_age_s = None
    /\ lookup[1].ret = "OkSome"
    /\ Len(writes) = 2
    /\ BothInserted(1, 2)
    /\ DataOf(writes[1]) # DataOf(writes[2])
    /\ spawned[writes[2].task].inserted < spawned[writes[1].task].inserted
    /\ InsertedAt(2) < InsertedAt(1)
    /\ DataOf(lookup[1].response[1]) = DataOf(writes[1])

(***************************************************************************)
(* C29.  No fabricated hits: when cache_lookup returns a hit, an earlier   *)
(* start_cache_write call that returned Ok was made with a request of the  *)
(* same cache key and with the output, raw request and raw response of the *)
(* response, and the table holds the row of that call; with an empty table *)
(* no lookup returns a hit, and every lookup that the store answers        *)
(* returns Ok(None).                                                       *)
(***************************************************************************)
C29_NoFabricatedHits ==
    [][LookupReturns
        => /\ lookup'[1].ret = "OkSome"
                => \E i \in 1..Len(writes) :
                      /\ writes[i].ret = "Ok"
                      /\ get_cache_key(writes[i].request) = get_cache_key(lookup'[1].request)
                      /\ DataOf(lookup'[1].response[1]) = DataOf(writes[i])
                      /\ spawned[writes[i].task].inserted \in KeyRows(lookup'[1].request)
           /\ store = <<>>
                => /\ lookup'[1].ret \in {"OkNone", "ErrStore"}
                   /\ lookup'[1].response = None
                   /\ lookup'[1].reply[1].ok => lookup'[1].ret = "OkNone"]_vars

\* The table holds the row of a call for R2 and the row of a later call for
\* R1, and a lookup for R1 returned a hit with the data of the call for R1.
C29_Witness ==
    /\ LookupReturned
    /\ lookup[1].request = R1
    /\ lookup[1].ret = "OkSome"
    /\ Len(writes) = 2
    /\ writes[1].request = R2
    /\ writes[2].request = R1
    /\ writes[2].ret = "Ok"
    /\ DataOf(lookup[1].response[1]) = DataOf(writes[2])
    /\ Len(store) = 2

\* The step is a start_cache_write call for a request whose cache key is not
\* the one of mpr; the step is an insert of a row with another long key.
OtherKeyWrite(mpr) ==
    /\ Len(writes') = Len(writes) + 1
    /\ get_cache_key(writes'[Len(writes')].request) # get_cache_key(mpr)

OtherKeyInsert(mpr) ==
    /\ Len(store') = Len(store) + 1
    /\ store'[Len(store')].long_cache_key # get_long_key(get_cache_key(mpr).key)

\* The replies the store may give, on the rows and at the time given, to the
\* query that cache_lookup prepares for a request and a bound.
RepliesOn(rows, time, mpr, max_age_s) ==
    LET key == get_cache_key(mpr).key
    IN  QueryResults(rows, QueryTemplate(max_age_s),
                     QueryParams(get_short_key(key)[1], get_long_key(key), max_age_s), time)

(***************************************************************************)
(* C30.  Key isolation under interleaving: while a cache_lookup is with    *)
(* the store, a start_cache_write call or a detached insert for a request  *)
(* with another cache key leaves the call as it is and leaves unchanged    *)
(* the replies that the store may give to its query, with or without a     *)
(* bound, and so its outcome; R1 and R2 have different cache keys and the  *)
(* same short key.                                                         *)
(***************************************************************************)
C30_KeyIsolation ==
    [][(IF lookup = None THEN FALSE ELSE lookup[1].pc = "querying")
        => LET mpr == lookup[1].request
           IN  /\ OtherKeyWrite(mpr) => store' = store /\ now' = now /\ lookup' = lookup
               /\ OtherKeyInsert(mpr)
                     => /\ lookup' = lookup
                        /\ RepliesOn(store', now', mpr, lookup[1].max_age_s)
                              = RepliesOn(store, now, mpr, lookup[1].max_age_s)]_vars

\* A lookup for R2 with a bound returned the data written for R2 although a
\* row for R1, with the same short key, was inserted before the row for R2.
C30_Witness ==
    /\ LookupReturned
    /\ lookup[1].request = R2
    /\ lookup[1].max_age_s = Some(1)
    /\ lookup[1].ret = "OkSome"
    /\ DataOf(lookup[1].response[1]) = DataOf(DataC)
    /\ Len(store) = 2
    /\ KeyRows(R1) = {1}
    /\ KeyRows(R2) = {2}

(***************************************************************************)
(* C31.  Lookup is read-only: no step of a cache_lookup call (the call up  *)
(* to its query, the reply of the store that ends it in a hit, a miss or   *)
(* an error, the failure of the query, the caller taking the result)       *)
(* changes the rows of the table, spawns a task or starts a write.         *)
(***************************************************************************)
C31_LookupReadOnly ==
    [][lookup' # lookup
        => /\ store' = store
           /\ spawned' = spawned
           /\ writes' = writes]_vars

\* A lookup ended in a hit on a table of one row while the task of a second
\* write was still pending.
C31_Witness ==
    /\ LookupReturned
    /\ lookup[1].ret = "OkSome"
    /\ lookup[1].queries = 1
    /\ Len(store) = 1
    /\ Len(spawned) = 2
    /\ spawned[2].state = "pending"

\* The two keys of each request that is written and can be serialized.
KeysAtCall ==
    [mpr \in {input[1] : input \in {w \in WriteInputs : get_cache_key(w[1]).ok}} |->
        LET key == get_cache_key(mpr).key
        IN  [short_cache_key |-> get_short_key(key)[1], long_cache_key |-> get_long_key(key)]]

\* The row that a start_cache_write call builds from its arguments.
RowOfCall(w) ==
    ModelInferenceCacheRow(KeysAtCall[w.request].short_cache_key,
                           KeysAtCall[w.request].long_cache_key,
                           w.output, w.raw_request, w.raw_response)

(***************************************************************************)
(* C32.  Written values are snapshotted at call time: the task spawned by  *)
(* a start_cache_write call holds the row built from the output, raw       *)
(* request and raw response passed to the call and from the keys of the    *)
(* request passed to it, and the row it inserts is that row, whatever      *)
(* calls the caller has made since the call returned.                      *)
(***************************************************************************)
C32_SnapshotAtCall ==
    \A k \in 1..Len(writes) :
        writes[k].ret = "Ok"
            => LET task == spawned[writes[k].task]
                   row == RowOfCall(writes[k])
               IN  /\ task.row = row
                   /\ task.state = "done"
                         => store[task.inserted]
                               = StoredRow(row, store[task.inserted].timestamp)

\* Two calls for R1 with different data returned; the task of the second call
\* inserted first and the task of the first call after it, and the row of the
\* first call holds the data of the first call.
C32_Witness ==
    /\ Len(writes) = 2
    /\ writes[1].request = R1
    /\ writes[2].request = R1
    /\ DataOf(writes[1]) = DataA
    /\ DataOf(writes[2]) = DataB
    /\ Len(store) = 2
    /\ spawned[2].inserted = 1
    /\ spawned[1].inserted = 2
    /\ RowData(2) = DataA

\* The characters of lowercase hexadecimal text.
LowerHexChars == {"0", "1", "2", "3", "4", "5", "6", "7", "8", "9", "a", "b", "c", "d", "e", "f"}

(***************************************************************************)
(* C33.  Wide form shape: the long key of a CacheKey has 64 characters,    *)
(* each a lowercase hexadecimal digit; the characters 2i-1 and 2i are the  *)
(* high and the low nibble of byte i of the digest, for each of its 32     *)
(* bytes; and no other digest has the same long key.                       *)
(***************************************************************************)
C33_WideFormShape ==
    \A n \in 1..Len(derived) :
        LET long == derived[n].long
        IN  /\ Len(cache_key) = 32
            /\ Len(long) = 64
            /\ \A c \in 1..64 : long[c] \in LowerHexChars
            /\ \A i \in 1..32 :
                   /\ HexValue(long[2 * i - 1]) = cache_key[i] \div 16
                   /\ HexValue(long[2 * i]) = cache_key[i] % 16
            /\ \A digest \in Digests : digest # cache_key => get_long_key(digest) # long

\* The long key of a digest that begins with the bytes 255, 16, 171 and ends
\* with the bytes 7, 255 has been derived: it begins ff10ab and ends 07ff.
C33_Witness ==
    /\ Len(derived) >= 1
    /\ SubSeq(cache_key, 1, 3) = <<255, 16, 171>>
    /\ SubSeq(cache_key, 31, 32) = <<7, 255>>
    /\ SubSeq(derived[1].long, 1, 6) = <<"f", "f", "1", "0", "a", "b">>
    /\ SubSeq(derived[1].long, 61, 64) = <<"0", "7", "f", "f">>

\* What get_short_key returns on the digests, each of 32 bytes.
ShortKeysOfDigests == {get_short_key(digest) : digest \in {d \in Digests : Len(d) = 32}}

(***************************************************************************)
(* C34.  Short-key derivation cannot fail: get_short_key returns Ok for    *)
(* every CacheKey, a digest of 32 bytes; no start_cache_write call returns *)
(* the Cache error, and no cache_lookup call returns the Cache error       *)
(* before the store has replied to its query.                              *)
(***************************************************************************)
C34_ShortKeyCannotFail ==
    /\ \A digest \in Digests : Len(digest) = 32
    /\ None \notin ShortKeysOfDigests
    /\ \A k \in 1..Len(writes) : writes[k].ret # "ErrCache"
    /\ lookup # None => (lookup[1].ret = "ErrCache" => lookup[1].reply # None)

\* A write call for R2 returned Ok, its row is in the table and a lookup for R2
\* with a bound has sent its query: both calls derived the short key.
C34_Witness ==
    /\ Len(writes) = 1
    /\ writes[1].request = R2
    /\ writes[1].ret = "Ok"
    /\ Len(store) = 1
    /\ lookup # None
    /\ lookup[1].request = R2
    /\ lookup[1].max_age_s = Some(1)
    /\ lookup[1].pc = "querying"

====
